---------------------------- MODULE Spec2Model ----------------------------
(***************************************************************************)
(* Model of server/service.py: the three request flows concat_videos,      *)
(* template_replace and template_fill, each a sequential run through       *)
(* validation, draft creation / template materialization, timeline         *)
(* mutation, material pruning, script.save() and exporter.export().        *)
(* One request is processed per behaviour; pc is the position in the flow. *)
(* Calls into pyJianYingDraft are modelled by what the call site passes    *)
(* and by the effect the service relies on (see the comments at each use). *)
(***************************************************************************)
EXTENDS Integers, Sequences, FiniteSets, TLC

\* pyJianYingDraft.SEC: microseconds per second (imported at service.py:20).
SEC == 1000000

\* Longest asset list of a concat / fill request that is explored.
MaxAssets == 3
\* Longest replacement list of a replace request that is explored.
MaxRepl == 3
\* Longest segment list of a track handed to the removal step on its own.
MaxTrackSegs == 3
\* Longest list of marked indices handed to the removal step on its own.
MaxMarks == 4

\* Python None among strings (names, ids, paths, error kinds).
NoValue == "None"

\* Optional values of other types: None is the empty tuple, a value v is <<v>>.
None == << >>

Some(v) == << v >>

SeqsUpTo(S, n) == UNION {[1..k -> S] : k \in 1..n}

Min(a, b) == IF a <= b THEN a ELSE b

RECURSIVE SumSeq(_)
SumSeq(s) == IF s = <<>> THEN 0 ELSE Head(s) + SumSeq(Tail(s))

(***************************************************************************)
(* The media files a request may name.  Each is a path on disk with the    *)
(* properties the service reads: Path.exists(), Path.is_file(), whether    *)
(* VideoMaterial(path) can parse it, and VideoMaterial.duration (in        *)
(* microseconds).  "gone" does not exist, "dir" is a directory, "bad" is a *)
(* file that is no video; the others are video files.                      *)
(***************************************************************************)
AssetPaths == {"a6", "b3", "c2", "z0", "bad", "gone", "dir"}

AssetDuration(p) ==
    CASE p = "a6" -> 6 * SEC
      [] p = "b3" -> 3 * SEC
      [] p = "c2" -> 2 * SEC
      [] OTHER    -> 0

\* Media files an asset list (concat, fill) may name.
ListAssetPaths == {"b3", "c2", "z0", "bad", "gone", "dir"}

\* ConcatOptions.max_each_video_seconds: None, or a positive float.  A float
\* is written <<m, k>> for the value m / 2^k it holds exactly (2.5 is
\* <<5, 1>>, 2^-21 is <<1, 21>>, 0.0078125 is <<1, 7>>).
CapChoices == {None, <<1, 21>>, <<5, 1>>}

\* payload.output_path: "out.txt" does not end in .mp4; "out.mp4" is a new
\* file in a directory that exists or can be made; the parent of
\* "file/out.mp4" is a regular file; "job/out.mp4" and "job/old.mp4" lie in
\* drafts_root/job_id, the second being a file that is already there;
\* "job/sub/out.mp4" lies in a sub-directory of drafts_root/job_id that does
\* not exist yet; "b3" is the path of one of the request's own media files.
OutputChoices == {"out.txt", "out.mp4", "file/out.mp4", "job/out.mp4",
                  "job/old.mp4", "job/sub/out.mp4", "b3"}

OutputsInJobDir == {"job/out.mp4", "job/old.mp4", "job/sub/out.mp4"}

\* The directories between drafts_root/job_id and the output file, by name
\* relative to drafts_root/job_id.
OutputSubdirs(out) == IF out = "job/sub/out.mp4" THEN {"sub"} ELSE {}

\* Export frame rates a request may carry (fps > 0).
FpsChoices == {30, 15}

\* jianying.py FRAMERATE_MAP keys.
SupportedFps == {24, 25, 30, 50, 60}

(***************************************************************************)
(* Draft structure.  A segment carries the id of its material, its source  *)
(* time range and its target time range; a track its type, name and        *)
(* segment list; a material record its id and path (either may be absent). *)
(***************************************************************************)
Segment(mid, sstart, sdur, tstart, tdur) ==
    [material_id |-> mid, source_start |-> sstart, source_duration |-> sdur,
     start |-> tstart, duration |-> tdur]

\* A track name is written as the tuple of its text followed by the numbers
\* appended to it with "_": "bgm" is <<"bgm">>, "video_fill_2" is
\* <<"video_fill", 2>>.
TrackName(text) == << text >>

Track(type, name, segs) == [track_type |-> type, name |-> name, segments |-> segs]

\* A material dict of the project description: "id", "material_id" and "path",
\* each possibly absent.
Material(id, material_id, path) == [id |-> id, material_id |-> material_id, path |-> path]

MaterialKeys == {"videos", "audios", "images", "texts", "effects"}

\* The template project: the content of its draft_content.json, which is
\* what ScriptFile.load_template reads into imported_tracks and
\* imported_materials and what _load_template_durations parses.  Two video
\* tracks, an audio track (the soundtrack of the first video file, in two
\* segments), and text, effect and sticker tracks.  Some materials carry
\* their id under "material_id", with "id" absent or empty.
TemplateTracks(n1, n2) ==
    << Track("video", n1, << Segment("m1", 0, 4 * SEC, 0, 4 * SEC),
                             Segment("m2", 0, 4 * SEC, 4 * SEC, 4 * SEC),
                             Segment("m3", 0, 2 * SEC, 8 * SEC, 2 * SEC) >>),
       Track("audio", TrackName("bgm"), << Segment("m4", 0, 10 * SEC, 0, 10 * SEC),
                                           Segment("m7", 0, 2 * SEC, 10 * SEC, 2 * SEC) >>),
       Track("video", n2, << Segment("m5", 0, 5 * SEC, 0, 5 * SEC) >>),
       Track("text", TrackName("title"), << Segment("m6", 0, 3 * SEC, 0, 3 * SEC) >>),
       Track("effect", TrackName("fx"), << Segment("e1", 0, 3 * SEC, 0, 3 * SEC) >>),
       Track("sticker", TrackName("logo"), << Segment("i1", 0, 3 * SEC, 0, 3 * SEC) >>) >>

TemplateMaterials ==
    [k \in MaterialKeys |->
        CASE k = "videos"  -> << Material("m1", NoValue, "p1"),
                                 Material("m2", NoValue, "p2"),
                                 Material("m3", NoValue, "p3"),
                                 Material("m5", NoValue, "p5") >>
          [] k = "audios"  -> << Material("m4", NoValue, "p1"),
                                 Material("", "m7", "p1") >>
          [] k = "images"  -> << Material(NoValue, "i1", "pi"),
                                 Material("", "", "pi") >>
          [] k = "texts"   -> << Material("m6", NoValue, NoValue) >>
          [] k = "effects" -> << Material("e1", NoValue, "pe") >>]

\* Names the template's two video tracks may carry.
TrackNameChoices ==
    { << TrackName(""), TrackName("") >>,
      << TrackName("video_fill"), TrackName("") >>,
      << TrackName("video_fill"), <<"video_fill", 1>> >>,
      << TrackName("video_fill"), <<"video_fill", 2>> >> }

\* Paths of template materials whose file may be gone when the draft is
\* checked; every other template path exists.
MaybeMissingPaths == {"p1", "pe", "pi"}

NoTracks == << >>

NoMaterials == [k \in MaterialKeys |-> << >>]

VARIABLES
    pc,                 \* position in the flow
    flow,               \* "concat" | "replace" | "fill" | NoValue
    err,                \* NoValue, or the failure the request ended with
    jobDir,             \* drafts_root/job_id: "absent" | "foreign" | "made" | "created" | "copied"
    unlinked,           \* files the request has removed with output_path.unlink()
    subdirs,            \* directories output_path.parent.mkdir() has made inside drafts_root/job_id
    jobDesc,            \* draft_content.json under it: "none" | "foreign" | "template" | "saved"
    savedDraft,         \* what script.save() wrote
    template_on_disk,   \* the template directory as found: "unread" | "no_dir" | "no_description" | "complete"
    missing_on_disk,    \* template material paths found not to exist by the last prune
    imported_tracks,    \* script.imported_tracks
    imported_materials, \* script.imported_materials
    tracks,             \* script.tracks (tracks added by add_track), in order
    materials,          \* paths of the materials added to script.materials
    payload_template_path, \* payload.template_path as supplied (NoValue if omitted)
    template_path,      \* the result of _resolve_template_path
    options,            \* concat: payload.options.max_each_video_seconds
    assets,             \* the asset list of a concat / fill request
    clip_limit,         \* concat: _calc_duration_limit(payload.options)
    processed,          \* loop position: assets already handled
    cursor,             \* running target offset of the concatenation loop
    track_name,         \* name of the track the loop appends to
    video_track_index,  \* payload.video_track_index
    payload_replacements, \* payload.replacements as supplied
    todo,               \* sorted replacements not yet processed
    duration_map,       \* segment index -> original target duration
    material_cache,     \* paths whose material has been loaded
    material_offsets,   \* per-asset consumption offset (meaningful for cached paths)
    segments_to_remove, \* indices marked for removal, in marking order
    removedFrom,        \* the replaced track's segments before the removal step
    saveCount,          \* number of script.save() calls that completed
    exportCount,        \* number of exporter.export() invocations
    pruneRuns,          \* number of _prune_missing_materials runs
    mutatedSincePrune   \* a timeline mutation happened after the last prune

vars == << pc, flow, err, jobDir, unlinked, subdirs, jobDesc, savedDraft, template_on_disk,
           missing_on_disk,
           imported_tracks, imported_materials, tracks, materials,
           payload_template_path, template_path, options, assets, clip_limit, processed, cursor, track_name,
           video_track_index, payload_replacements, todo, duration_map,
           material_cache, material_offsets, segments_to_remove, removedFrom,
           saveCount, exportCount, pruneRuns, mutatedSincePrune >>

scriptVars == << imported_tracks, imported_materials, tracks, materials >>

diskVars == << jobDir, jobDesc, savedDraft >>

readVars == << template_on_disk, missing_on_disk >>

loopVars == << options, assets, clip_limit, processed, cursor, track_name >>

tplVars == << payload_template_path, template_path >>

replVars == << video_track_index, payload_replacements, todo, duration_map,
               material_cache, material_offsets, segments_to_remove,
               removedFrom >>

ghostVars == << saveCount, exportCount, pruneRuns, mutatedSincePrune >>

\* Path.exists(): the file is there unless the request has removed it.
AssetExists(p) == p # "gone" /\ p \notin unlinked

AssetIsFile(p) == AssetExists(p) /\ p # "dir"

\* VideoMaterial(path) succeeds.
AssetReadable(p) == AssetIsFile(p) /\ p # "bad"

\* The state before a request arrives.  drafts_root/job_id either does not
\* exist or is a directory left by something else ("foreign").
Init ==
    /\ pc = "idle"
    /\ flow = NoValue
    /\ err = NoValue
    /\ jobDir \in {"absent", "foreign"}
    /\ jobDesc = IF jobDir = "foreign" THEN "foreign" ELSE "none"
    /\ unlinked = {}
    /\ subdirs = {}
    /\ savedDraft = None
    /\ template_on_disk = "unread"
    /\ missing_on_disk = {}
    /\ imported_tracks = NoTracks
    /\ imported_materials = NoMaterials
    /\ tracks = NoTracks
    /\ materials = {}
    /\ payload_template_path = NoValue
    /\ template_path = NoValue
    /\ options = None
    /\ assets = << >>
    /\ clip_limit = None
    /\ processed = << >>
    /\ cursor = 0
    /\ track_name = None
    /\ video_track_index = 0
    /\ payload_replacements = << >>
    /\ todo = << >>
    /\ duration_map = << >>
    /\ material_cache = {}
    /\ material_offsets = [p \in AssetPaths |-> 0]
    /\ segments_to_remove = << >>
    /\ removedFrom = << >>
    /\ saveCount = 0
    /\ exportCount = 0
    /\ pruneRuns = 0
    /\ mutatedSincePrune = FALSE

\* A raise: the flow stops with the given failure; nothing else changes
\* beyond what the raising step already did.
Fail(kind) == pc' = "failed" /\ err' = kind

\* The failures raised as JobError; every other failure is an exception the
\* service does not catch.
JobErrorKinds ==
    {"JobError:drafts_root_invalid", "JobError:asset_not_found",
     "JobError:asset_not_a_file", "JobError:output_not_mp4",
     "JobError:asset_unreadable", "JobError:empty_timeline",
     "JobError:export_failed", "JobError:draft_already_exists",
     "JobError:template_dir_not_found", "JobError:draft_content_missing",
     "JobError:template_not_found", "JobError:template_path_required",
     "JobError:template_path_not_found", "JobError:track_index_out_of_range",
     "JobError:missing_duration"}

IsJobError(e) == e \in JobErrorKinds

(***************************************************************************)
(* Validation helpers                                                      *)
(***************************************************************************)
\* The first path of the list that fails the check, as the error it raises.
RECURSIVE _ensure_video_files(_)
_ensure_video_files(paths) ==
    IF paths = << >> THEN NoValue
    ELSE IF ~AssetExists(Head(paths)) THEN "JobError:asset_not_found"
    ELSE IF ~AssetIsFile(Head(paths)) THEN "JobError:asset_not_a_file"
    ELSE _ensure_video_files(Tail(paths))

_ensure_media_file(p) ==
    IF ~AssetExists(p) THEN "JobError:asset_not_found"
    ELSE IF ~AssetIsFile(p) THEN "JobError:asset_not_a_file"
    ELSE NoValue

\* service.py:237-244: int(max_seconds * SEC) for the float m / 2^k.  The
\* float product is exact as long as m * SEC needs no more than 53 bits,
\* which holds for every m the integers of the model can carry
\* (m * SEC < 2^31); int() then truncates the positive value.  A float whose
\* product with SEC has to be rounded (8.2, 1.005) has a mantissa beyond
\* that range and is not an input of this operator.
_calc_duration_limit(opts) ==
    IF opts = None THEN None
    ELSE Some((opts[1] * SEC) \div (2 ^ opts[2]))

\* service.py:228-234 as [err, jobDir, unlinked, subdirs]: the suffix test,
\* then output_path.parent.mkdir(parents=True, exist_ok=True), which raises
\* FileExistsError when the parent is a regular file and otherwise makes
\* every directory on the way to the output that is missing, that is
\* drafts_root/job_id when the output lies in it and the sub-directories of
\* it that hold the output, whether drafts_root/job_id was there or not;
\* then the removal of a file found at output_path.
_prepare_output_path(out) ==
    IF out = "out.txt"
        THEN [err |-> "JobError:output_not_mp4", jobDir |-> jobDir,
              unlinked |-> unlinked, subdirs |-> subdirs]
    ELSE IF out = "file/out.mp4"
        THEN [err |-> "Unhandled:FileExistsError", jobDir |-> jobDir,
              unlinked |-> unlinked, subdirs |-> subdirs]
    ELSE LET made == IF out \in OutputsInJobDir /\ jobDir = "absent"
                        THEN "made" ELSE jobDir
             below == subdirs \cup OutputSubdirs(out)
             exists == \/ out = "job/old.mp4"
                       \/ out \in AssetPaths /\ AssetExists(out)
         IN  IF exists /\ out = "dir"
                THEN [err |-> "Unhandled:IsADirectoryError", jobDir |-> made,
                      unlinked |-> unlinked, subdirs |-> below]
                ELSE [err |-> NoValue, jobDir |-> made,
                      unlinked |-> IF exists THEN unlinked \cup {out}
                                             ELSE unlinked,
                      subdirs |-> below]

\* The output paths a request may carry given what is on disk and the media
\* files it names: a file can only be found in drafts_root/job_id if that
\* directory exists, and a media file given as output is one of the request.
OutputAllowed(out, paths) ==
    /\ out = "job/old.mp4" => jobDir = "foreign"
    /\ out \in AssetPaths => out \in paths

(***************************************************************************)
(* script.add_segment(segment, track_name=...): the segment is appended to *)
(* the named track of script.tracks.                                       *)
(***************************************************************************)
add_segment(trks, name, seg) ==
    [i \in 1..Len(trks) |->
        IF trks[i].name = name
            THEN [trks[i] EXCEPT !.segments = Append(@, seg)]
            ELSE trks[i]]

\* The track of script.tracks with the given name.
TrackNamed(trks, name) == trks[CHOOSE i \in 1..Len(trks) : trks[i].name = name]

(***************************************************************************)
(* concat_videos                                                           *)
(***************************************************************************)
\* service.py:49-55: the request arrives and its paths are validated.
StartConcat ==
    /\ pc = "idle"
    /\ \E rootOk \in BOOLEAN, out \in OutputChoices, opts \in CapChoices,
          vids \in SeqsUpTo(ListAssetPaths, MaxAssets) :
        LET prepared == _prepare_output_path(out)
        IN  /\ rootOk \/ jobDir = "absent"
            /\ OutputAllowed(out, { vids[i] : i \in 1..Len(vids) })
            /\ flow' = "concat"
            /\ assets' = vids
            /\ options' = opts
            /\ IF ~rootOk
                 THEN /\ Fail("JobError:drafts_root_invalid")
                      /\ UNCHANGED << jobDir, unlinked, subdirs >>
               ELSE IF _ensure_video_files(vids) # NoValue
                 THEN /\ Fail(_ensure_video_files(vids))
                      /\ UNCHANGED << jobDir, unlinked, subdirs >>
               ELSE /\ jobDir' = prepared.jobDir
                    /\ unlinked' = prepared.unlinked
                    /\ subdirs' = prepared.subdirs
                    /\ IF prepared.err # NoValue THEN Fail(prepared.err)
                       ELSE pc' = "concat_create" /\ err' = err
    /\ UNCHANGED readVars
    /\ UNCHANGED << jobDesc, savedDraft, scriptVars, tplVars, clip_limit,
                    processed, cursor, track_name, replVars, ghostVars >>

\* service.py:57-73: create_draft(job_id, ..., allow_replace=True) leaves a
\* directory drafts_root/job_id on disk (an existing one is either reused or
\* replaced, and holds no project description of this request until save; a
\* replaced one no longer holds the sub-directories made for the output);
\* then the track "video_main" is added and the loop variables are set.
ConcatCreateDraft ==
    /\ pc = "concat_create"
    /\ UNCHANGED unlinked
    /\ \E replaced \in BOOLEAN :
        /\ IF jobDir = "foreign" /\ ~replaced
             THEN jobDir' = jobDir /\ jobDesc' = jobDesc
             ELSE jobDir' = "created" /\ jobDesc' = "none"
        /\ subdirs' = IF replaced THEN {} ELSE subdirs
    /\ track_name' = TrackName("video_main")
    /\ tracks' = << Track("video", track_name', << >>) >>
    /\ cursor' = 0
    /\ clip_limit' = _calc_duration_limit(options)
    /\ pc' = "concat_loop"
    /\ UNCHANGED readVars
    /\ UNCHANGED << flow, err, savedDraft, imported_tracks, imported_materials,
                    materials, tplVars, options, assets, processed,
                    replVars, ghostVars >>

\* Variant of UsableDuration that never applies the cap.
UsableDuration_uncapped(p, limit) == AssetDuration(p)

\* service.py:81-83: the usable duration of one asset under the optional cap.
UsableDuration(p, limit) ==
    IF limit = None THEN AssetDuration(p)
    ELSE Min(AssetDuration(p), limit[1])

\* service.py:74-94: one iteration of the concatenation loop.
ConcatLoopStep ==
    /\ pc = "concat_loop"
    /\ UNCHANGED << unlinked, subdirs >>
    /\ Len(processed) < Len(assets)
    /\ LET video_path == assets[Len(processed) + 1]
           usable_duration == UsableDuration(video_path, clip_limit)
       IN  IF ~AssetReadable(video_path)
             THEN /\ Fail("JobError:asset_unreadable")
                  /\ UNCHANGED << tracks, materials, cursor, processed,
                                  mutatedSincePrune >>
           ELSE IF usable_duration <= 0
             THEN /\ processed' = Append(processed, video_path)
                  /\ UNCHANGED << pc, err, tracks, materials, cursor,
                                  mutatedSincePrune >>
           ELSE /\ tracks' = add_segment(tracks, track_name,
                                 Segment(video_path, 0, usable_duration,
                                         cursor, usable_duration))
                /\ materials' = materials \cup {video_path}
                /\ cursor' = cursor + usable_duration
                /\ processed' = Append(processed, video_path)
                /\ mutatedSincePrune' = TRUE
                /\ UNCHANGED << pc, err >>
    /\ UNCHANGED readVars
    /\ UNCHANGED << flow, diskVars, imported_tracks, imported_materials,
                    tplVars, options, assets, clip_limit, track_name, replVars,
                    saveCount, exportCount, pruneRuns >>

\* Variant of EmptyTimeline without the guard.
EmptyTimeline_unguarded(cur) == FALSE

\* service.py:96 / 404: no segment was appended.
EmptyTimeline(cur) == cur = 0

\* service.py:96-97: the empty-timeline guard after the loop.
ConcatLoopEnd ==
    /\ pc = "concat_loop"
    /\ UNCHANGED << unlinked, subdirs >>
    /\ Len(processed) = Len(assets)
    /\ IF EmptyTimeline(cursor) THEN Fail("JobError:empty_timeline")
       ELSE pc' = "save" /\ err' = err
    /\ UNCHANGED readVars
    /\ UNCHANGED << flow, diskVars, scriptVars, tplVars, loopVars,
                    replVars, ghostVars >>

(***************************************************************************)
(* Template materialization, shared by template_replace and template_fill  *)
(***************************************************************************)
\* payload.template_path: omitted, or the path of a description file that
\* lies in a template directory next to its draft_content.json.
TemplatePathChoices == {NoValue, "tpl/other.json"}

ServerTemplatePath == "TEMPLATE_BASE_DIR/template_name/draft_content.json"

\* service.py:295-298: an explicit path is used as given; otherwise the path
\* of the named template under TEMPLATE_BASE_DIR.  The result is never None.
_resolve_template_path(tp, template_name) ==
    IF tp # NoValue THEN tp ELSE ServerTemplatePath

\* service.py:112-117 / 175-180: a template request arrives; the template
\* path is resolved, the drafts root and the output path are validated.
StartTemplate ==
    /\ pc = "idle"
    /\ \E f \in {"replace", "fill"}, rootOk \in BOOLEAN, out \in OutputChoices,
          tp \in TemplatePathChoices :
        LET prepared == _prepare_output_path(out)
        IN  /\ rootOk \/ jobDir = "absent"
            /\ OutputAllowed(out, AssetPaths)
            /\ flow' = f
            /\ payload_template_path' = tp
            /\ template_path' = _resolve_template_path(tp, "template_name")
            /\ IF ~rootOk
                 THEN /\ Fail("JobError:drafts_root_invalid")
                      /\ UNCHANGED << jobDir, unlinked, subdirs >>
               ELSE /\ jobDir' = prepared.jobDir
                    /\ unlinked' = prepared.unlinked
                    /\ subdirs' = prepared.subdirs
                    /\ IF prepared.err # NoValue THEN Fail(prepared.err)
                       ELSE pc' = "materialize" /\ err' = err
    /\ UNCHANGED readVars
    /\ UNCHANGED << jobDesc, savedDraft, scriptVars, loopVars, replVars,
                    ghostVars >>

\* Variant of _materialize_template_draft that copies without looking at the
\* target first.
_materialize_template_draft_unchecked(dir, templateDirExists, templateDescExists) ==
    IF ~templateDirExists
        THEN [err |-> "JobError:template_dir_not_found", jobDir |-> dir.jobDir,
              jobDesc |-> dir.jobDesc]
    ELSE IF ~templateDescExists
        THEN [err |-> "JobError:draft_content_missing", jobDir |-> "copied",
              jobDesc |-> "none"]
    ELSE [err |-> NoValue, jobDir |-> "copied", jobDesc |-> "template"]

\* service.py:301-317: the outcome of _materialize_template_draft as
\* [err, jobDir, jobDesc]: the template directory must exist, the target
\* must not, then the whole directory is copied and the copy must hold a
\* draft_content.json.
_materialize_template_draft(dir, templateDirExists, templateDescExists) ==
    IF ~templateDirExists
        THEN [err |-> "JobError:template_dir_not_found", jobDir |-> dir.jobDir,
              jobDesc |-> dir.jobDesc]
    ELSE IF dir.jobDir # "absent"
        THEN [err |-> "FileExistsError", jobDir |-> dir.jobDir,
              jobDesc |-> dir.jobDesc]
    ELSE IF ~templateDescExists
        THEN [err |-> "JobError:draft_content_missing", jobDir |-> "copied",
              jobDesc |-> "none"]
    ELSE [err |-> NoValue, jobDir |-> "copied", jobDesc |-> "template"]

\* DraftFolder.duplicate_as_template(template_name, job_id): the by-name
\* duplication inside drafts_root, same outcome record.
duplicate_as_template(dir, templateExists) ==
    IF ~templateExists
        THEN [err |-> "FileNotFoundError", jobDir |-> dir.jobDir,
              jobDesc |-> dir.jobDesc]
    ELSE IF dir.jobDir # "absent"
        THEN [err |-> "FileExistsError", jobDir |-> dir.jobDir,
              jobDesc |-> dir.jobDesc]
    ELSE [err |-> NoValue, jobDir |-> "copied", jobDesc |-> "template"]

\* service.py:125-128 / 188-191: the except clauses around materialization.
MaterializeError(e) ==
    CASE e = "FileNotFoundError" -> "JobError:template_not_found"
      [] e = "FileExistsError"   -> "JobError:draft_already_exists"
      [] OTHER                   -> e

\* service.py:119-128 / 182-191: the draft is obtained from the template,
\* by name when template_path is None and by path otherwise, and loaded.
\* The names of the template's video tracks are read by the fill flow only,
\* so the replace flow is explored with one naming.
Materialize ==
    /\ pc = "materialize"
    /\ UNCHANGED << unlinked, subdirs >>
    /\ \E templateDirExists \in BOOLEAN, templateDescExists \in BOOLEAN :
        LET dir == [jobDir |-> jobDir, jobDesc |-> jobDesc]
            r == IF template_path = NoValue
                    THEN duplicate_as_template(dir, templateDirExists)
                    ELSE _materialize_template_draft(dir, templateDirExists,
                                                     templateDescExists)
        IN  /\ templateDescExists => templateDirExists
            /\ template_on_disk' = IF ~templateDirExists THEN "no_dir"
                                   ELSE IF ~templateDescExists THEN "no_description"
                                   ELSE "complete"
            /\ jobDir' = r.jobDir
            /\ jobDesc' = r.jobDesc
            /\ IF r.err # NoValue
                 THEN /\ Fail(MaterializeError(r.err))
                      /\ UNCHANGED << imported_tracks, imported_materials >>
                 ELSE /\ \E names \in IF flow = "fill" THEN TrackNameChoices
                                                       ELSE { << TrackName(""), TrackName("") >> } :
                            imported_tracks' = TemplateTracks(names[1], names[2])
                      /\ imported_materials' = TemplateMaterials
                      /\ pc' = IF flow = "replace" THEN "replace_load"
                                                   ELSE "prune"
                      /\ err' = err
    /\ UNCHANGED missing_on_disk
    /\ UNCHANGED << flow, savedDraft, tracks, materials, tplVars, loopVars,
                    replVars, ghostVars >>

(***************************************************************************)
(* _prune_missing_materials                                                *)
(***************************************************************************)
\* Python truth of an optional string: None and "" are false.
Truthy(v) == v \notin {NoValue, ""}

\* service.py:344-345: material.get("id") or material.get("material_id");
\* an absent or empty "id" gives way to "material_id", whatever that is.
_material_id(material) ==
    IF Truthy(material.id) THEN material.id ELSE material.material_id

\* service.py:347-354: a material without a path (or with an empty one) is
\* never missing; otherwise
\* it is missing when its path does not exist on disk.
_is_missing(material, missingPaths) ==
    IF ~Truthy(material.path) THEN FALSE
    ELSE material.path \in missingPaths

PrunedKeys == {"videos", "audios", "images"}

\* service.py:356-368: the ids of the missing materials of the three
\* scanned categories.
missing_ids(mats, missingPaths) ==
    UNION { { _material_id(mats[k][i]) :
                i \in { j \in 1..Len(mats[k]) :
                           /\ _is_missing(mats[k][j], missingPaths)
                           /\ Truthy(_material_id(mats[k][j])) } } :
            k \in PrunedKeys }

\* service.py:356-368: the inventory after the scan.
PruneMaterials(mats, missingPaths) ==
    [k \in DOMAIN mats |->
        IF k \in PrunedKeys
            THEN LET Keep(m) == ~_is_missing(m, missingPaths)
                 IN  SelectSeq(mats[k], Keep)
            ELSE mats[k]]

\* service.py:370-380: segments of video and audio tracks that reference a
\* missing id are dropped.
PruneTracks(trks, ids) ==
    IF ids = {} THEN trks
    ELSE [i \in 1..Len(trks) |->
            IF trks[i].track_type \notin {"video", "audio"} THEN trks[i]
            ELSE LET Keep(seg) == seg.material_id \notin ids
                 IN  [trks[i] EXCEPT !.segments = SelectSeq(@, Keep)]]

\* service.py:163 / 193: _prune_missing_materials(script), reading which
\* material files exist at that moment.
Prune ==
    /\ pc = "prune"
    /\ UNCHANGED << unlinked, subdirs >>
    /\ \E missingPaths \in SUBSET MaybeMissingPaths :
        /\ missing_on_disk' = missingPaths
        /\ imported_materials' = PruneMaterials(imported_materials, missingPaths)
        /\ imported_tracks' = PruneTracks(imported_tracks,
                                  missing_ids(imported_materials, missingPaths))
    /\ pruneRuns' = pruneRuns + 1
    /\ mutatedSincePrune' = FALSE
    /\ pc' = IF flow = "replace" THEN "save" ELSE "fill_clear"
    /\ UNCHANGED template_on_disk
    /\ UNCHANGED << flow, err, diskVars, tracks, materials, tplVars,
                    loopVars, replVars, saveCount, exportCount >>

(***************************************************************************)
(* template_replace                                                        *)
(***************************************************************************)
\* The imported tracks of one type, in order (get_imported_track filters by
\* type before indexing; _load_template_durations does the same at line 277).
PositionsOfType(trks, type) == { i \in 1..Len(trks) : trks[i].track_type = type }

\* Position in trks of the index-th (0-based) track of the given type,
\* 0 when there is none.
RECURSIVE NthOfType(_, _, _, _)
NthOfType(trks, type, index, from) ==
    IF from > Len(trks) THEN 0
    ELSE IF trks[from].track_type = type
        THEN IF index = 0 THEN from ELSE NthOfType(trks, type, index - 1, from + 1)
    ELSE NthOfType(trks, type, index, from + 1)

\* Position of the track the replace flow edits.
ReplacedTrackPos == NthOfType(imported_tracks, "video", video_track_index, 1)

\* The "tracks" list of a description file as _load_template_durations
\* reads it: per track its type and, per segment, target_timerange.duration
\* (None when the segment has none).
DescriptionTrack(type, durations) == [track_type |-> type, segments |-> durations]

\* The description a draft was loaded from.
DescriptionOf(trks) ==
    [i \in 1..Len(trks) |->
        DescriptionTrack(trks[i].track_type,
            [j \in 1..Len(trks[i].segments) |-> Some(trks[i].segments[j].duration)])]

\* Other description files a request may point at: one whose first video
\* track has four segments of 1s and whose second video track has none, and
\* one with a single video track whose second segment has no duration.
OtherDescriptions ==
    { << DescriptionTrack("video", << Some(SEC), Some(SEC), Some(SEC), Some(SEC) >>),
         DescriptionTrack("video", << >>) >>,
      << DescriptionTrack("audio", << Some(10 * SEC) >>),
         DescriptionTrack("video", << Some(4 * SEC), None, Some(2 * SEC) >>) >> }

\* The file at template_path when the durations are looked up: None when
\* there is no such file, else its tracks.  The server template's path is
\* the draft_content.json the draft was copied and loaded from; a path given
\* in the request names a file of its own.
DescriptionFiles(tp, loaded) ==
    IF tp = ServerTemplatePath THEN { Some(DescriptionOf(loaded)) }
    ELSE { None } \cup { Some(d) : d \in OtherDescriptions }

\* service.py:263-292: the original target durations of the segments of the
\* description's video track track_index, as [err, map]; map[i + 1] is the
\* duration of segment index i.  tpExists is template_path.exists() and
\* descTracks the "tracks" list of the description file.
_load_template_durations(tp, tpExists, descTracks, track_index) ==
    IF tp = NoValue
        THEN [err |-> "JobError:template_path_required", map |-> << >>]
    ELSE IF ~tpExists
        THEN [err |-> "JobError:template_path_not_found", map |-> << >>]
    ELSE IF track_index >= Cardinality(PositionsOfType(descTracks, "video"))
        THEN [err |-> "JobError:track_index_out_of_range", map |-> << >>]
    ELSE LET segs == descTracks[NthOfType(descTracks, "video", track_index, 1)].segments
         IN  IF \E i \in 1..Len(segs) : segs[i] = None
                THEN [err |-> "JobError:missing_duration", map |-> << >>]
                ELSE [err |-> NoValue,
                      map |-> [i \in 1..Len(segs) |-> segs[i][1]]]

\* duration_map.get(segment_index): None when the index has no entry.
DurationGet(map, segment_index) ==
    IF segment_index + 1 \in DOMAIN map THEN Some(map[segment_index + 1]) ELSE None

Replacement(segment_index, path) == [segment_index |-> segment_index, path |-> path]

\* Media files a replacement may name.
ReplAssetPaths == {"a6", "b3", "z0", "gone"}

\* Segment indices a replacement may name: those of the template's first
\* video track and one past its end.
ReplIndices == 0..Len(TemplateTracks(TrackName(""), TrackName(""))[1].segments)

ReplacementChoices ==
    { Replacement(i, p) : i \in ReplIndices, p \in ReplAssetPaths }

\* Stable insertion of x into a list sorted by segment_index: after every
\* element whose key is not larger.
InsertByIndex(s, x) ==
    LET k == Cardinality({ i \in 1..Len(s) : s[i].segment_index <= x.segment_index })
    IN  SubSeq(s, 1, k) \o << x >> \o SubSeq(s, k + 1, Len(s))

\* service.py:136: sorted(payload.replacements, key=segment_index); Python's
\* sort is stable, so entries with equal index keep their input order.
RECURSIVE SortedByIndexFrom(_, _)
SortedByIndexFrom(acc, rest) ==
    IF rest = << >> THEN acc
    ELSE SortedByIndexFrom(InsertByIndex(acc, Head(rest)), Tail(rest))

sorted_replacements(repl) == SortedByIndexFrom(<< >>, repl)

\* service.py:130-136: the track to edit and the original durations are
\* looked up, the loop state is initialised and the replacement list sorted.
\* get_imported_track raises (not a JobError) when the draft has no video
\* track of that index.  The description parsed is the file at
\* template_path.  A media file the request gave as its output path is one
\* of its replacement assets.
ReplaceLoad ==
    /\ pc = "replace_load"
    /\ UNCHANGED << unlinked, subdirs >>
    /\ \E vti \in 0..Cardinality(PositionsOfType(imported_tracks, "video")),
          repl \in SeqsUpTo(ReplacementChoices, MaxRepl),
          file \in DescriptionFiles(template_path, imported_tracks) :
        LET d == _load_template_durations(template_path, file # None,
                     IF file = None THEN << >> ELSE file[1], vti)
        IN  /\ unlinked \cap AssetPaths \subseteq
                    { repl[i].path : i \in 1..Len(repl) }
            /\ video_track_index' = vti
            /\ payload_replacements' = repl
            /\ IF NthOfType(imported_tracks, "video", vti, 1) = 0
                 THEN /\ Fail("Unhandled:track_not_found")
                      /\ UNCHANGED << duration_map, todo >>
               ELSE IF d.err # NoValue
                 THEN /\ Fail(d.err)
                      /\ UNCHANGED << duration_map, todo >>
               ELSE /\ duration_map' = d.map
                    /\ todo' = sorted_replacements(repl)
                    /\ pc' = "replace_loop"
                    /\ err' = err
    /\ material_cache' = {}
    /\ material_offsets' = [p \in AssetPaths |-> 0]
    /\ segments_to_remove' = << >>
    /\ UNCHANGED readVars
    /\ UNCHANGED << flow, diskVars, scriptVars, tplVars, loopVars,
                    removedFrom, ghostVars >>

\* What the library does with a source range longer than the segment it is
\* put on.  The call at service.py:152-158 passes no handle_extend, so the
\* library's default decides: it cuts the range to the segment's length
\* ("cut_material_tail"), or it records the range as passed ("as_passed").
ExtendChoices == {"cut_material_tail", "as_passed"}

\* script.replace_material_by_seg(track, segment_index, material,
\* source_timerange=Timerange(offset, use), handle_shrink=cut_tail_align)
\* as called at service.py:152-158: the segment takes the new material and
\* the source range passed; when the range is shorter than the segment, the
\* segment's tail is cut and the following segments move up by the
\* difference; when it is longer, the segment keeps its length and the
\* range is handled as extend says.
replace_material_by_seg(segs, segment_index, path, offset, use_duration, extend) ==
    LET pos == segment_index + 1
        delta == IF use_duration < segs[pos].duration
                    THEN segs[pos].duration - use_duration ELSE 0
        taken == IF use_duration > segs[pos].duration
                        /\ extend = "cut_material_tail"
                    THEN segs[pos].duration ELSE use_duration
    IN  [i \in 1..Len(segs) |->
            IF i = pos
                THEN [segs[i] EXCEPT !.material_id = path,
                                     !.source_start = offset,
                                     !.source_duration = taken,
                                     !.duration = @ - delta]
            ELSE IF i > pos THEN [segs[i] EXCEPT !.start = @ - delta]
            ELSE segs[i]]

\* service.py:150
UseDuration(target_duration, remaining) == Min(target_duration, remaining)

\* service.py:137-159: the body of the replacement loop for one entry, on
\* the loop state st = [err, segments, material_cache, material_offsets,
\* segments_to_remove, materials, replaced], where replaced says whether
\* this entry substituted a segment; extend is the library's handling of a
\* too long source range.
replace_iteration(st, replacement, dmap, extend) ==
    LET media_path == replacement.path
        cache == st.material_cache \cup {media_path}
        offsets == IF media_path \in st.material_cache THEN st.material_offsets
                   ELSE [st.material_offsets EXCEPT ![media_path] = 0]
        loaded == [st EXCEPT !.material_cache = cache,
                             !.material_offsets = offsets,
                             !.replaced = FALSE]
        target_duration == DurationGet(dmap, replacement.segment_index)
        offset == offsets[media_path]
        remaining == AssetDuration(media_path) - offset
        use_duration == UseDuration(target_duration[1], remaining)
    IN  IF _ensure_media_file(media_path) # NoValue
            THEN [st EXCEPT !.err = _ensure_media_file(media_path),
                            !.replaced = FALSE]
        ELSE IF media_path \notin st.material_cache /\ ~AssetReadable(media_path)
            THEN [st EXCEPT !.err = "JobError:asset_unreadable",
                            !.replaced = FALSE]
        ELSE IF target_duration = None
            THEN [loaded EXCEPT !.err = "JobError:missing_duration"]
        ELSE IF remaining <= 0
            THEN [loaded EXCEPT !.segments_to_remove =
                                    Append(@, replacement.segment_index)]
        ELSE IF replacement.segment_index >= Len(st.segments)
            THEN [loaded EXCEPT !.err = "Unhandled:segment_index_out_of_range"]
        ELSE [loaded EXCEPT
                !.segments = replace_material_by_seg(@, replacement.segment_index,
                                 media_path, offset, use_duration,
                                 extend),
                !.materials = @ \cup {media_path},
                !.material_offsets[media_path] = offset + use_duration,
                !.replaced = TRUE]

\* service.py:132-159 as a function of the replacement list as supplied, the
\* segments of the track and the duration map: the loop state after the
\* whole loop (or at the raise).
RECURSIVE ReplaceAll(_, _, _, _)
ReplaceAll(st, list, dmap, extend) ==
    IF list = << >> \/ st.err # NoValue THEN st
    ELSE ReplaceAll(replace_iteration(st, Head(list), dmap, extend),
                    Tail(list), dmap, extend)

template_replace_loop(repl, segs, dmap, extend) ==
    ReplaceAll([err |-> NoValue,
                segments |-> segs,
                material_cache |-> {},
                material_offsets |-> [p \in AssetPaths |-> 0],
                segments_to_remove |-> << >>,
                materials |-> {},
                replaced |-> FALSE],
               sorted_replacements(repl),
               dmap, extend)

\* The loop state held in the variables.
LoopState ==
    [err |-> NoValue,
     segments |-> imported_tracks[ReplacedTrackPos].segments,
     material_cache |-> material_cache,
     material_offsets |-> material_offsets,
     segments_to_remove |-> segments_to_remove,
     materials |-> materials,
     replaced |-> FALSE]

\* service.py:136-159: one iteration of the replacement loop.
ReplaceStep ==
    /\ pc = "replace_loop"
    /\ UNCHANGED << unlinked, subdirs >>
    /\ todo # << >>
    /\ \E extend \in ExtendChoices :
       LET st == replace_iteration(LoopState, Head(todo), duration_map, extend)
       IN  /\ material_cache' = st.material_cache
           /\ material_offsets' = st.material_offsets
           /\ segments_to_remove' = st.segments_to_remove
           /\ materials' = st.materials
           /\ imported_tracks' =
                  [imported_tracks EXCEPT ![ReplacedTrackPos].segments = st.segments]
           /\ mutatedSincePrune' = (mutatedSincePrune \/ st.replaced)
           /\ IF st.err # NoValue
                THEN Fail(st.err) /\ todo' = todo
                ELSE todo' = Tail(todo) /\ UNCHANGED << pc, err >>
    /\ UNCHANGED readVars
    /\ UNCHANGED << flow, diskVars, imported_materials, tracks, tplVars,
                    loopVars, video_track_index, payload_replacements,
                    duration_map, removedFrom, saveCount, exportCount,
                    pruneRuns >>

\* The largest element of a non-empty set of integers.
MaxOf(S) == CHOOSE x \in S : \A y \in S : y <= x

\* del segments[index]
DeleteAt(segs, index) ==
    SubSeq(segs, 1, index) \o SubSeq(segs, index + 2, Len(segs))

\* The smallest element of a non-empty set of integers.
MinOf(S) == CHOOSE x \in S : \A y \in S : x <= y

\* Variant of RemoveDescending that visits the indices from the lowest to
\* the highest, so that each deletion shifts the segments behind it.
RECURSIVE RemoveDescending_ascending(_, _)
RemoveDescending_ascending(segs, indexSet) ==
    IF indexSet = {} THEN segs
    ELSE LET index == MinOf(indexSet)
         IN  RemoveDescending_ascending(
                 IF 0 <= index /\ index < Len(segs) THEN DeleteAt(segs, index)
                                                    ELSE segs,
                 indexSet \ {index})

\* service.py:419-424: the distinct indices are visited from the highest to
\* the lowest and each one inside the list's range is deleted.
RECURSIVE RemoveDescending(_, _)
RemoveDescending(segs, indexSet) ==
    IF indexSet = {} THEN segs
    ELSE LET index == MaxOf(indexSet)
         IN  RemoveDescending(
                 IF 0 <= index /\ index < Len(segs) THEN DeleteAt(segs, index)
                                                    ELSE segs,
                 indexSet \ {index})

_remove_segments_by_index(segs, indices) ==
    RemoveDescending(segs, { indices[i] : i \in DOMAIN indices })

\* service.py:161-162: after the loop the marked segments are removed.
ReplaceLoopEnd ==
    /\ pc = "replace_loop"
    /\ UNCHANGED << unlinked, subdirs >>
    /\ todo = << >>
    /\ removedFrom' = imported_tracks[ReplacedTrackPos].segments
    /\ IF segments_to_remove # << >>
         THEN /\ imported_tracks' =
                    [imported_tracks EXCEPT ![ReplacedTrackPos].segments =
                        _remove_segments_by_index(@, segments_to_remove)]
              /\ mutatedSincePrune' = TRUE
         ELSE UNCHANGED << imported_tracks, mutatedSincePrune >>
    /\ pc' = "prune"
    /\ UNCHANGED readVars
    /\ UNCHANGED << flow, err, diskVars, imported_materials, tracks, materials,
                    tplVars, loopVars, video_track_index,
                    payload_replacements, todo, duration_map, material_cache,
                    material_offsets, segments_to_remove, saveCount,
                    exportCount, pruneRuns >>

(***************************************************************************)
(* template_fill                                                           *)
(***************************************************************************)
\* service.py:383-388: every imported video track loses its segments.
_clear_imported_video_segments(trks) ==
    [i \in 1..Len(trks) |->
        IF trks[i].track_type # "video" THEN trks[i]
        ELSE [trks[i] EXCEPT !.segments = << >>]]

\* service.py:194
FillClear ==
    /\ pc = "fill_clear"
    /\ UNCHANGED << unlinked, subdirs >>
    /\ imported_tracks' = _clear_imported_video_segments(imported_tracks)
    /\ mutatedSincePrune' = TRUE
    /\ pc' = "fill_assets"
    /\ UNCHANGED readVars
    /\ UNCHANGED << flow, err, diskVars, imported_materials, tracks, materials,
                    tplVars, loopVars, replVars, saveCount, exportCount,
                    pruneRuns >>

\* service.py:195: every asset path is checked, in order.  A media file the
\* request gave as its output path is one of its assets.
RECURSIVE EnsureMediaFiles(_)
EnsureMediaFiles(paths) ==
    IF paths = << >> THEN NoValue
    ELSE IF _ensure_media_file(Head(paths)) # NoValue
        THEN _ensure_media_file(Head(paths))
    ELSE EnsureMediaFiles(Tail(paths))

FillEnsureAssets ==
    /\ pc = "fill_assets"
    /\ UNCHANGED << unlinked, subdirs >>
    /\ \E list \in SeqsUpTo(ListAssetPaths, MaxAssets) :
        /\ unlinked \cap AssetPaths \subseteq { list[i] : i \in 1..Len(list) }
        /\ assets' = list
        /\ IF EnsureMediaFiles(list) # NoValue
             THEN Fail(EnsureMediaFiles(list))
             ELSE pc' = "fill_begin" /\ err' = err
    /\ UNCHANGED readVars
    /\ UNCHANGED << flow, diskVars, scriptVars, tplVars, options,
                    clip_limit, processed, cursor, track_name, replVars,
                    ghostVars >>

\* f"{base}_{index}": the name base followed by "_" and the number.
SuffixedName(base, index) == Append(base, index)

RECURSIVE FirstFreeIndex(_, _, _)
FirstFreeIndex(existing, base, index) ==
    IF SuffixedName(base, index) \in existing
        THEN FirstFreeIndex(existing, base, index + 1)
        ELSE index

\* Variant of _unique_track_name that always returns the base name.
_unique_track_name_base(existing, base) == base

\* service.py:408-416
_unique_track_name(existing, base) ==
    IF base \notin existing THEN base
    ELSE SuffixedName(base, FirstFreeIndex(existing, base, 1))

\* The names of all tracks of the draft (service.py:409-410).
ExistingTrackNames ==
    { tracks[i].name : i \in 1..Len(tracks) }
        \cup { imported_tracks[i].name : i \in 1..Len(imported_tracks) }

\* service.py:392-395: a uniquely named video track is added.
FillAppendBegin ==
    /\ pc = "fill_begin"
    /\ UNCHANGED << unlinked, subdirs >>
    /\ track_name' = _unique_track_name(ExistingTrackNames, TrackName("video_fill"))
    /\ tracks' = Append(tracks, Track("video", track_name', << >>))
    /\ cursor' = 0
    /\ processed' = << >>
    /\ pc' = "fill_loop"
    /\ UNCHANGED readVars
    /\ UNCHANGED << flow, err, diskVars, imported_tracks, imported_materials,
                    materials, tplVars, options, assets, clip_limit,
                    replVars, ghostVars >>

\* service.py:396-402: one iteration of the append loop.
FillLoopStep ==
    /\ pc = "fill_loop"
    /\ UNCHANGED << unlinked, subdirs >>
    /\ Len(processed) < Len(assets)
    /\ LET media_path == assets[Len(processed) + 1]
           duration == AssetDuration(media_path)
       IN  IF ~AssetReadable(media_path)
             THEN /\ Fail("JobError:asset_unreadable")
                  /\ UNCHANGED << tracks, materials, cursor, processed,
                                  mutatedSincePrune >>
           ELSE IF duration <= 0
             THEN /\ processed' = Append(processed, media_path)
                  /\ UNCHANGED << pc, err, tracks, materials, cursor,
                                  mutatedSincePrune >>
           ELSE /\ tracks' = add_segment(tracks, track_name,
                                 Segment(media_path, 0, duration, cursor, duration))
                /\ materials' = materials \cup {media_path}
                /\ cursor' = cursor + duration
                /\ processed' = Append(processed, media_path)
                /\ mutatedSincePrune' = TRUE
                /\ UNCHANGED << pc, err >>
    /\ UNCHANGED readVars
    /\ UNCHANGED << flow, diskVars, imported_tracks, imported_materials,
                    tplVars, options, assets, clip_limit, track_name, replVars,
                    saveCount, exportCount, pruneRuns >>

\* service.py:404-405: the empty-timeline guard after the loop.
FillLoopEnd ==
    /\ pc = "fill_loop"
    /\ UNCHANGED << unlinked, subdirs >>
    /\ Len(processed) = Len(assets)
    /\ IF EmptyTimeline(cursor) THEN Fail("JobError:empty_timeline")
       ELSE pc' = "save" /\ err' = err
    /\ UNCHANGED readVars
    /\ UNCHANGED << flow, diskVars, scriptVars, tplVars, loopVars,
                    replVars, ghostVars >>

(***************************************************************************)
(* Persistence and export, shared by the three flows                       *)
(***************************************************************************)
\* What script.save() serializes.
Snapshot ==
    [imported_tracks |-> imported_tracks,
     imported_materials |-> imported_materials,
     tracks |-> tracks, materials |-> materials]

\* Variant of Save in which a failed write is swallowed and the flow goes on.
Save_failure_ignored ==
    /\ pc = "save"
    /\ UNCHANGED << unlinked, subdirs >>
    /\ \E ok \in BOOLEAN :
        IF ok
          THEN /\ jobDesc' = "saved"
               /\ savedDraft' = Some(Snapshot)
               /\ saveCount' = saveCount + 1
               /\ pc' = "export"
               /\ UNCHANGED << err, jobDir >>
          ELSE /\ pc' = "export"
               /\ UNCHANGED << err, diskVars, saveCount >>
    /\ UNCHANGED readVars
    /\ UNCHANGED << flow, scriptVars, tplVars, loopVars, replVars,
                    exportCount, pruneRuns, mutatedSincePrune >>

\* service.py:99 / 164 / 199: script.save() writes the project description
\* into drafts_root/job_id, or raises an I/O error the service does not catch.
Save ==
    /\ pc = "save"
    /\ UNCHANGED << unlinked, subdirs >>
    /\ \E ok \in BOOLEAN :
        IF ok
          THEN /\ jobDesc' = "saved"
               /\ savedDraft' = Some(Snapshot)
               /\ saveCount' = saveCount + 1
               /\ pc' = "export"
               /\ UNCHANGED << err, jobDir >>
          ELSE /\ Fail("Unhandled:save_failed")
               /\ UNCHANGED << diskVars, saveCount >>
    /\ UNCHANGED readVars
    /\ UNCHANGED << flow, scriptVars, tplVars, loopVars, replVars,
                    exportCount, pruneRuns, mutatedSincePrune >>

\* service.py:102-108 / 165-171 / 200-206 with jianying.py:27-43:
\* JianyingExporter() is constructed outside the try block; export() raises
\* ValueError for an unsupported frame rate or whatever the controller
\* raises, and every exception of export() is re-raised as JobError.
Export ==
    /\ pc = "export"
    /\ UNCHANGED << unlinked, subdirs >>
    /\ \E f \in FpsChoices, constructed \in BOOLEAN, exported \in BOOLEAN :
        /\ IF ~constructed
             THEN Fail("Unhandled:exporter_unavailable")
                  /\ exportCount' = exportCount
             ELSE /\ exportCount' = exportCount + 1
                  /\ IF f \notin SupportedFps \/ ~exported
                       THEN Fail("JobError:export_failed")
                       ELSE pc' = "done" /\ err' = err
    /\ UNCHANGED readVars
    /\ UNCHANGED << flow, diskVars, scriptVars, tplVars, loopVars, replVars,
                    saveCount, pruneRuns, mutatedSincePrune >>

Next ==
    \/ StartConcat
    \/ ConcatCreateDraft
    \/ ConcatLoopStep
    \/ ConcatLoopEnd
    \/ StartTemplate
    \/ Materialize
    \/ ReplaceLoad
    \/ ReplaceStep
    \/ ReplaceLoopEnd
    \/ Prune
    \/ FillClear
    \/ FillEnsureAssets
    \/ FillAppendBegin
    \/ FillLoopStep
    \/ FillLoopEnd
    \/ Save
    \/ Export

Spec == Init /\ [][Next]_vars

(***************************************************************************)
(* Properties                                                              *)
(***************************************************************************)
\* The usable duration of an asset as the concatenation is specified:
\* min(duration, cap) under the concat flow's cap, the duration otherwise.
ClaimUsable(p) ==
    IF flow = "concat" /\ clip_limit # None
        THEN Min(AssetDuration(p), clip_limit[1])
        ELSE AssetDuration(p)

\* A concatenation loop has been entered (its track exists).
InConcatenation == flow \in {"concat", "fill"} /\ track_name # None

\* The segments of the track the loop appends to.
AppendedSegments == TrackNamed(tracks, track_name).segments

\* C1: at every point of the concatenation loop (concat_videos with its
\* optional cap, _append_assets_as_track without one) the appended segments
\* are, in input order, exactly the processed assets whose usable duration is
\* > 0; the first starts at 0, each next one starts where the previous one
\* ends, each lasts its asset's usable duration, and the cursor is the sum of
\* the usable durations.  Durations [3s, 0s, 2s] without a cap give [0,3s)
\* and [3s,5s) and a total of 5s.
C1_ContiguousConcatenation ==
    InConcatenation =>
        LET segs == AppendedSegments
            Positive(p) == ClaimUsable(p) > 0
            kept == SelectSeq(processed, Positive)
        IN  /\ Len(segs) = Len(kept)
            /\ \A i \in 1..Len(segs) :
                /\ segs[i].material_id = kept[i]
                /\ segs[i].duration = ClaimUsable(kept[i])
                /\ segs[i].start = IF i = 1 THEN 0
                                   ELSE segs[i - 1].start + segs[i - 1].duration
            /\ cursor = SumSeq([i \in 1..Len(kept) |-> ClaimUsable(kept[i])])
            /\ (processed = << "b3", "z0", "c2" >> /\ clip_limit = None) =>
                  /\ Len(segs) = 2
                  /\ segs[1].start = 0 /\ segs[1].duration = 3 * SEC
                  /\ segs[2].start = 3 * SEC /\ segs[2].duration = 2 * SEC
                  /\ cursor = 5 * SEC

\* C1 witness: the concat flow has processed [3s, 0s, 2s] without a cap and
\* appended two segments.
C1_Witness ==
    /\ flow = "concat" /\ pc = "save"
    /\ processed = << "b3", "z0", "c2" >> /\ clip_limit = None
    /\ Len(AppendedSegments) = 2 /\ cursor = 5 * SEC

\* The replace flow is in or past its replacement loop.
InReplaceLoop ==
    flow = "replace" /\ pc \in {"replace_loop", "prune", "save", "export", "done", "failed"}
        /\ duration_map # << >>

\* The segments of the track the replace flow edits.
ReplacedSegments == imported_tracks[ReplacedTrackPos].segments

\* A segment whose material is a replacement asset.
Substituted(seg) == seg.material_id \in AssetPaths

\* C2 (state part, which the code keeps): no substituted segment has an empty source range or one
\* that ends beyond its asset's duration; every consumption offset lies
\* between 0 and the asset's duration; an index is marked for removal only
\* if an asset assigned to it is fully consumed.  Originals {0: 4s, 1: 4s}
\* with one 6s asset on indices 0 and 1 give the source ranges [0,4s) and
\* [4s,6s) and nothing marked.
C2_StateInvariant ==
    InReplaceLoop =>
        /\ \A i \in 1..Len(ReplacedSegments) :
              Substituted(ReplacedSegments[i]) =>
                  /\ ReplacedSegments[i].source_start >= 0
                  /\ ReplacedSegments[i].source_duration > 0
                  /\ ReplacedSegments[i].source_start
                        + ReplacedSegments[i].source_duration
                            <= AssetDuration(ReplacedSegments[i].material_id)
        /\ \A p \in material_cache :
              0 <= material_offsets[p] /\ material_offsets[p] <= AssetDuration(p)
        /\ \A k \in 1..Len(segments_to_remove) :
              \E j \in 1..Len(payload_replacements) :
                  /\ payload_replacements[j].segment_index = segments_to_remove[k]
                  /\ payload_replacements[j].path \in material_cache
                  /\ material_offsets[payload_replacements[j].path]
                        = AssetDuration(payload_replacements[j].path)
        /\ ( /\ payload_replacements = << Replacement(0, "a6"), Replacement(1, "a6") >>
             /\ video_track_index = 0
             /\ DurationGet(duration_map, 0) = Some(4 * SEC)
             /\ DurationGet(duration_map, 1) = Some(4 * SEC)
             /\ todo = << >> /\ pc # "failed" /\ removedFrom = << >> ) =>
                /\ ReplacedSegments[1].source_start = 0
                /\ ReplacedSegments[1].source_duration = 4 * SEC
                /\ ReplacedSegments[2].source_start = 4 * SEC
                /\ ReplacedSegments[2].source_duration = 2 * SEC
                /\ segments_to_remove = << >>

\* C2 (step part): one iteration that does not raise either marks the index
\* and leaves offset and segments alone (remaining <= 0), or substitutes the
\* segment with the source range [offset, offset + use) for
\* use = min(original target duration, remaining) > 0 and advances the
\* offset by use; no offset ever decreases.  The range is read off the
\* segment after the call, so an entry on a segment that an earlier entry
\* of the same index has shrunk breaks it when the library cuts the range.
C2_StepProperty ==
    (pc = "replace_loop" /\ todo # << >> /\ pc' = "replace_loop") =>
        LET r == Head(todo)
            offset == IF r.path \in material_cache THEN material_offsets[r.path] ELSE 0
            remaining == AssetDuration(r.path) - offset
            target == duration_map[r.segment_index + 1]
            use == IF target <= remaining THEN target ELSE remaining
            before == imported_tracks[ReplacedTrackPos].segments
            after == imported_tracks'[ReplacedTrackPos].segments
        IN  /\ \A p \in AssetPaths : material_offsets'[p] >= material_offsets[p]
            /\ remaining <= 0 =>
                  /\ segments_to_remove' = Append(segments_to_remove, r.segment_index)
                  /\ material_offsets'[r.path] = offset
                  /\ after = before
            /\ remaining > 0 =>
                  /\ use > 0
                  /\ after[r.segment_index + 1].material_id = r.path
                  /\ after[r.segment_index + 1].source_start = offset
                  /\ after[r.segment_index + 1].source_duration = use
                  /\ material_offsets'[r.path] = offset + use
                  /\ segments_to_remove' = segments_to_remove

\* C2 (as claimed): every replacement processed by template_replace either
\* marks its index (asset exhausted, offset not advanced) or leaves the
\* segment with the source range [offset, offset + use); no source range
\* ends beyond the asset's footage, each offset grows monotonically within
\* the asset's duration, and an index is marked only when its asset is
\* exhausted (state part and step part together).
C2_ReplacementWithinFootage == [](C2_StateInvariant) /\ [][C2_StepProperty]_vars

\* The replacement loop has just finished without raising.
ReplaceLoopDone == flow = "replace" /\ pc = "replace_loop" /\ todo = << >>

\* What C3 compares: the consumption offsets of the loaded assets, the
\* source range of each segment index, and the set of marked indices.
Outcome(st) ==
    [offsets |-> [p \in st.material_cache |-> st.material_offsets[p]],
     ranges  |-> [i \in 1..Len(st.segments) |->
                    << st.segments[i].source_start, st.segments[i].source_duration >>],
     removal |-> { st.segments_to_remove[i] : i \in 1..Len(st.segments_to_remove) }]

\* The segments of the edited track as the draft was loaded, before the loop.
LoadedSegments ==
    TemplateTracks(TrackName(""), TrackName(""))[ReplacedTrackPos].segments

\* The orders in which the same replacement entries can be supplied.
PermutationsOf(s) ==
    { [i \in 1..Len(s) |-> s[f[i]]] : f \in Permutations(1..Len(s)) }

IsAscending(q) ==
    \A i \in 1..(Len(q) - 1) : q[i].segment_index <= q[i + 1].segment_index

\* C3 (as claimed): whatever the order in which the replacement list is
\* supplied, the loop ends with the same per-asset offsets, the same source
\* range on every segment index and the same set of marked indices as when
\* the list is supplied in ascending segment-index order (under some
\* handling of too long ranges by the library).
C3_OrderInvariance ==
    ReplaceLoopDone =>
        \A q \in PermutationsOf(payload_replacements) :
            IsAscending(q) =>
                \E extend \in ExtendChoices :
                    Outcome(template_replace_loop(q, LoadedSegments, duration_map,
                                                  extend))
                        = Outcome(LoopState)

\* C3 (the part the code keeps): the per-asset offsets and the set of marked
\* indices do not depend on the order of the list.
C3_OffsetsOrderInvariant ==
    ReplaceLoopDone =>
        \A q \in PermutationsOf(payload_replacements) :
            \A extend \in ExtendChoices :
                LET o == Outcome(template_replace_loop(q, LoadedSegments,
                                                       duration_map, extend))
                IN  o.offsets = Outcome(LoopState).offsets
                        /\ o.removal = Outcome(LoopState).removal

\* The ids under which the draft's inventory holds a material: the imported
\* materials of every category and the materials added by this request.
InventoryIds ==
    UNION { { _material_id(imported_materials[k][i]) :
                i \in 1..Len(imported_materials[k]) } : k \in MaterialKeys }
        \cup materials

\* _prune_missing_materials has just returned.
JustPruned == pruneRuns > 0 /\ pc \in {"save", "fill_clear"}

\* C4 (as claimed): when _prune_missing_materials has returned, every
\* material left in the inventory has a path that exists on disk and every
\* segment left on any track references a material of the inventory.
C4_NoDanglingAfterPrune ==
    JustPruned =>
        /\ \A k \in MaterialKeys : \A i \in 1..Len(imported_materials[k]) :
              /\ imported_materials[k][i].path # NoValue
              /\ imported_materials[k][i].path \notin missing_on_disk
        /\ \A i \in 1..Len(imported_tracks) :
              \A j \in 1..Len(imported_tracks[i].segments) :
                  imported_tracks[i].segments[j].material_id \in InventoryIds
        /\ \A i \in 1..Len(tracks) : \A j \in 1..Len(tracks[i].segments) :
              tracks[i].segments[j].material_id \in InventoryIds

\* C5 (as claimed): whenever a flow has reached the save step, the material
\* garbage collector has run and no timeline mutation happened after its
\* last run.
C5_PruneAfterLastMutation ==
    pc \in {"save", "export", "done"} => (pruneRuns > 0 /\ ~mutatedSincePrune)

\* Every asset of the list is readable and has usable duration <= 0.
ClaimAllUnusable ==
    /\ assets # << >>
    /\ \A i \in 1..Len(assets) :
          AssetReadable(assets[i]) /\ ClaimUsable(assets[i]) <= 0

\* C6: when every asset has usable duration <= 0, the concat and fill flows
\* append nothing, keep the cursor at 0 and can only end with the
\* empty-timeline error; save is never called, the exporter is never invoked
\* and no saved draft is on disk under the job name.
C6_EmptyTimelineFails ==
    (InConcatenation /\ ClaimAllUnusable) =>
        /\ cursor = 0
        /\ AppendedSegments = << >>
        /\ pc \in {"concat_loop", "fill_loop", "failed"}
        /\ pc = "failed" => err = "JobError:empty_timeline"
        /\ saveCount = 0
        /\ exportCount = 0
        /\ jobDesc # "saved"
        /\ savedDraft = None

\* C6 witness: a concat request whose cap truncates to 0 has failed with the
\* empty-timeline error although its asset lasts 3s.
C6_Witness ==
    /\ flow = "concat" /\ pc = "failed" /\ err = "JobError:empty_timeline"
    /\ clip_limit = Some(0)
    /\ assets[1] = "b3"
    /\ Len(processed) = Len(assets)

\* C7 (as claimed): materializing onto an existing drafts_root/job_id fails
\* with the draft-already-exists error and leaves the directory as it was.
C7_ExistingDraftRejected ==
    [][ (pc = "materialize" /\ jobDir # "absent") =>
            /\ pc' = "failed"
            /\ err' = "JobError:draft_already_exists"
            /\ jobDir' = jobDir /\ jobDesc' = jobDesc /\ savedDraft' = savedDraft
      ]_vars

\* C7 (amended): materializing onto an existing drafts_root/job_id fails
\* before anything is copied and leaves the directory as the step found it;
\* the error is draft-already-exists when the template's directory exists
\* and template-directory-not-found when it does not (that check comes
\* first).  Of a template request that finds the directory in place, the
\* validation of the output path is the one step that can change it: it
\* makes the missing directories on the way to an output path inside it and
\* removes a file found at that path; the directory itself and its project
\* description stay as they were.
C7_ExistingDraftUntouched ==
    [][ /\ (pc = "materialize" /\ jobDir # "absent") =>
            /\ pc' = "failed"
            /\ err' = IF template_on_disk' = "no_dir"
                        THEN "JobError:template_dir_not_found"
                        ELSE "JobError:draft_already_exists"
            /\ jobDir' = jobDir /\ jobDesc' = jobDesc /\ savedDraft' = savedDraft
            /\ unlinked' = unlinked /\ subdirs' = subdirs
            /\ imported_tracks' = NoTracks /\ imported_materials' = NoMaterials
        /\ (flow' \in {"replace", "fill"} /\ jobDir = "foreign") =>
            /\ jobDir' = jobDir /\ jobDesc' = jobDesc /\ savedDraft' = savedDraft
            /\ (unlinked' # unlinked \/ subdirs' # subdirs) => pc = "idle"
            /\ unlinked' \cap OutputsInJobDir \subseteq {"job/old.mp4"}
            /\ subdirs' \subseteq {"sub"}
      ]_vars

\* C7 witness: a fill request found drafts_root/job_id in place, made the
\* sub-directory of its output path inside it, and was rejected with the
\* draft-already-exists error, the directory and its description as found.
C7_Witness ==
    /\ flow = "fill" /\ pc = "failed" /\ err = "JobError:draft_already_exists"
    /\ template_on_disk = "complete"
    /\ jobDir = "foreign" /\ jobDesc = "foreign"
    /\ subdirs = {"sub"}

\* C8 (as claimed): when a step before save fails, the request has written
\* neither a directory nor a project description under the job name.
C8_NothingPersistedOnFailure ==
    (pc = "failed" /\ saveCount = 0 /\ err # "Unhandled:save_failed") =>
        /\ jobDir \in {"absent", "foreign"}
        /\ jobDesc \in {"none", "foreign"}

\* C9: export is invoked at most once per request and only after save has
\* completed (the saved description is on disk); a request that failed
\* before export never invoked it; a failed export is reported as JobError
\* and leaves the saved draft as save wrote it.
C9_ExportOnceAfterSave ==
    /\ exportCount <= 1
    /\ saveCount <= 1
    /\ exportCount = 1 =>
          /\ saveCount = 1
          /\ pc \in {"done", "failed"}
          /\ jobDesc = "saved"
          /\ savedDraft = Some(Snapshot)
    /\ (pc = "failed" /\ exportCount = 1) =>
          (err = "JobError:export_failed" /\ IsJobError(err))
    /\ (pc = "failed" /\ err # "JobError:export_failed") => exportCount = 0
    /\ pc = "done" => exportCount = 1

\* C9 witness: export was invoked after a completed save and failed.
C9_Witness ==
    /\ pc = "failed" /\ err = "JobError:export_failed"
    /\ exportCount = 1 /\ saveCount = 1 /\ jobDesc = "saved"

\* The fill flow has added its track.
InFillAppend == flow = "fill" /\ track_name # None

ImportedTrackNames == { imported_tracks[i].name : i \in 1..Len(imported_tracks) }

\* C10 (state part): once template_fill has added its track, every imported
\* video track is empty, exactly one track was added, a video track whose
\* name is "video_fill" if no imported track has it and otherwise
\* "video_fill_k" for the smallest k >= 1 not in use, and that track holds
\* the assets of positive duration in order, each with its full duration.
C10_StateInvariant ==
    InFillAppend =>
        /\ \A i \in 1..Len(imported_tracks) :
              imported_tracks[i].track_type = "video" =>
                  imported_tracks[i].segments = << >>
        /\ Len(tracks) = 1
        /\ tracks[1].track_type = "video"
        /\ tracks[1].name = track_name
        /\ track_name \notin ImportedTrackNames
        /\ IF TrackName("video_fill") \notin ImportedTrackNames
              THEN track_name = TrackName("video_fill")
              ELSE \E k \in 1..(Len(imported_tracks) + 1) :
                      /\ track_name = SuffixedName(TrackName("video_fill"), k)
                      /\ \A j \in 1..(k - 1) :
                            SuffixedName(TrackName("video_fill"), j) \in ImportedTrackNames
        /\ LET Positive(p) == AssetDuration(p) > 0
               kept == SelectSeq(processed, Positive)
           IN  /\ Len(tracks[1].segments) = Len(kept)
               /\ \A i \in 1..Len(kept) :
                     /\ tracks[1].segments[i].material_id = kept[i]
                     /\ tracks[1].segments[i].duration = AssetDuration(kept[i])

\* C10 (step part): the clearing step empties the video tracks and leaves
\* every other track as it was, and nothing after it touches the imported
\* tracks.
C10_StepProperty ==
    /\ pc = "fill_clear" =>
          /\ Len(imported_tracks') = Len(imported_tracks)
          /\ \A i \in 1..Len(imported_tracks) :
                IF imported_tracks[i].track_type = "video"
                    THEN imported_tracks'[i] =
                            [imported_tracks[i] EXCEPT !.segments = << >>]
                    ELSE imported_tracks'[i] = imported_tracks[i]
    /\ (flow = "fill" /\ pc \in {"fill_assets", "fill_begin", "fill_loop"}) =>
          imported_tracks' = imported_tracks

\* C10: template_fill empties every video track of the materialized draft
\* and only those, adds exactly one uniquely named video track and appends
\* the assets to it sequentially without a cap.
C10_FillClearsAndAppends == [](C10_StateInvariant) /\ [][C10_StepProperty]_vars

\* C10 witness: the template's video tracks were named video_fill and
\* video_fill_2, so the new track is video_fill_1; it holds two segments
\* while the imported video tracks are empty and the text track is not.
C10_Witness ==
    /\ flow = "fill" /\ pc = "save"
    /\ track_name = <<"video_fill", 1>>
    /\ <<"video_fill", 2>> \in ImportedTrackNames
    /\ Len(tracks[1].segments) = 2
    /\ imported_tracks[1].segments = << >>
    /\ imported_tracks[4].segments # << >>


(***************************************************************************)
(* The template source of a replace request                                *)
(***************************************************************************)
\* The materialization step has run (it records what it found on disk).
MaterializationRan == template_on_disk # "unread"

\* The branch service.py:120 selects: the by-name duplication is taken
\* exactly when the resolved template path is None.
TookByNamePath == MaterializationRan /\ template_path = NoValue

TookByPathMaterialization == MaterializationRan /\ template_path # NoValue

\* The draft was materialized and its video track was found, so the
\* duration lookup of service.py:131 was called.
DurationLookupCalled ==
    /\ flow = "replace"
    /\ imported_tracks # << >>
    /\ pc \notin {"materialize", "replace_load"}
    /\ err # "Unhandled:track_not_found"

\* C11: a replace request without a template description path is
\* materialized by name, and its duration lookup fails with "template_path
\* is required" before any segment is replaced; the by-path materialization
\* runs only for a request that carries a description path.
C11_NameOnlyTakesByNamePath ==
    /\ (flow = "replace" /\ payload_template_path = NoValue) =>
          /\ MaterializationRan => TookByNamePath
          /\ DurationLookupCalled =>
                /\ pc = "failed"
                /\ err = "JobError:template_path_required"
                /\ \A i \in 1..Len(ReplacedSegments) :
                      ~Substituted(ReplacedSegments[i])
    /\ TookByPathMaterialization => payload_template_path # NoValue


(***************************************************************************)
(* The removal step of template_replace on its own: the state at the end   *)
(* of the replacement loop with the track's segment list and the list of   *)
(* marked indices drawn from bounded sets, and the step applied to it.     *)
(***************************************************************************)
\* A track's segment list of n segments, told apart by their target start.
TrackSegments(n) == [i \in 1..n |-> Segment("m1", 0, SEC, (i - 1) * SEC, SEC)]

\* Lists of marked indices: non-negative (segment_index >= 0), possibly
\* repeated, in any order, and up to two past the end of the longest track.
MarkChoices == { << >> } \cup SeqsUpTo(0..(MaxTrackSegs + 1), MaxMarks)

\* service.py:160: the replacement loop of a replace request has ended; the
\* draft is the materialized template whose edited video track holds some
\* segment list, and segments_to_remove some list of marks.
RemovalInit ==
    /\ pc = "replace_loop"
    /\ flow = "replace"
    /\ err = NoValue
    /\ jobDir = "copied"
    /\ jobDesc = "template"
    /\ unlinked = {}
    /\ subdirs = {}
    /\ savedDraft = None
    /\ template_on_disk = "complete"
    /\ missing_on_disk = {}
    /\ video_track_index \in {0, 1}
    /\ \E n \in 0..MaxTrackSegs :
          LET tpl == TemplateTracks(TrackName(""), TrackName(""))
              pos == NthOfType(tpl, "video", video_track_index, 1)
          IN  imported_tracks = [tpl EXCEPT ![pos].segments = TrackSegments(n)]
    /\ imported_materials = TemplateMaterials
    /\ tracks = NoTracks
    /\ materials = {}
    /\ payload_template_path = "tpl/other.json"
    /\ template_path = _resolve_template_path(payload_template_path, "template_name")
    /\ options = None
    /\ assets = << >>
    /\ clip_limit = None
    /\ processed = << >>
    /\ cursor = 0
    /\ track_name = None
    /\ payload_replacements = << >>
    /\ todo = << >>
    /\ duration_map = [i \in 1..(MaxTrackSegs + 2) |-> SEC]
    /\ material_cache = {}
    /\ material_offsets = [p \in AssetPaths |-> 0]
    /\ segments_to_remove \in MarkChoices
    /\ removedFrom = << >>
    /\ saveCount = 0
    /\ exportCount = 0
    /\ pruneRuns = 0
    /\ mutatedSincePrune = FALSE

\* The removal step applied to each such state.
RemovalSpec == RemovalInit /\ [][ReplaceLoopEnd]_vars

\* The removal step of a replace request has just run.
RemovalStepDone == flow = "replace" /\ pc = "prune"

\* The distinct marked indices.
MarkedIndices == { segments_to_remove[k] : k \in 1..Len(segments_to_remove) }

\* The positions (from 1) of the segments of segs whose index is not marked.
KeptPositions(segs, marks) == { i \in 1..Len(segs) : (i - 1) \notin marks }

\* result is segs without the segments at the marked indices: it has one
\* entry per unmarked segment, and the unmarked segment at position i is
\* found at the rank of i among the unmarked positions.
IsDeletionOf(result, segs, marks) ==
    LET kept == KeptPositions(segs, marks)
    IN  /\ Len(result) = Cardinality(kept)
        /\ \A i \in kept :
              result[Cardinality({ j \in kept : j <= i })] = segs[i]

\* C12: right after the removal step of template_replace the edited track's
\* segment list is the list before the step without the segments at the
\* marked indices, the others in their order; repeated marks count once, the
\* order of the marks does not matter, and a mark at or beyond the length of
\* the list removes nothing.
C12_RemovalDeletesMarked ==
    RemovalStepDone =>
        /\ IsDeletionOf(ReplacedSegments, removedFrom, MarkedIndices)
        /\ (\A k \in MarkedIndices : k >= Len(removedFrom)) =>
              ReplacedSegments = removedFrom

\* C12 witness: a track of three segments with the marks 0, 1, 1 and 4:
\* the repeated mark and the mark past the end remove nothing more, and the
\* one segment left is the third.
C12_Witness ==
    /\ RemovalStepDone
    /\ Len(removedFrom) = 3
    /\ segments_to_remove = << 0, 1, 1, 4 >>
    /\ ReplacedSegments = << removedFrom[3] >>

=============================================================================
